---------------------------- MODULE Spec2Model ----------------------------
(***************************************************************************)
(* BIP0032 child key derivation of pycoin (pycoin/key/bip32.py).           *)
(*                                                                         *)
(* The two derivation functions are modelled as operators that return the  *)
(* observable behaviour of one call: the messages handed to HMAC, the log  *)
(* records emitted and the final return or raise, in program order.        *)
(*                                                                         *)
(* Scaling.  secp256k1 is replaced by the curve y^2 = x^3 + 7 over F_43,   *)
(* whose group has prime order 31, generated by G.  The 32-byte fields     *)
(* (secret exponent, x coordinate, chain code, I_L, I_R) become KeyLen = 1 *)
(* byte each, so that I_L ranges over 0..255 and may be >= ORDER.  The     *)
(* 4-byte index becomes IndexLen = 3 bytes (the hardened bit is 2^23), so  *)
(* that every value stays inside the integers of the model checker.        *)
(* HMAC-SHA512 (standard library) is a deterministic function of (key,     *)
(* message) taken from a family indexed by the variable salt, which Init   *)
(* draws and no action changes.                                            *)
(***************************************************************************)
EXTENDS Integers, Sequences, FiniteSets, TLC

VARIABLES salt,      \* which member of the hash family stands for HMAC-SHA512
          call,      \* the arguments of the last call of a derivation function
          outcome,   \* what that call did: [hmac_msgs, events]
          priv,      \* derivation path, private side: <<se, cc>>
          pub,       \* derivation path, public side: <<pt, cc>>, or None
          depth      \* length of the derivation path

vars == <<salt, call, outcome, priv, pub, depth>>

----------------------------------------------------------------------------
(* Bounds of the model *)

MaxSalt == 1      \* hash family members 0..MaxSalt
MaxCC == 3        \* parent chain codes <<0>> .. <<MaxCC>> handed to a call
MaxOff == 1       \* indices within MaxOff of -2^23, 0, 2^23 and 2^24
MaxDepth == 3     \* longest derivation path
MaxPair == 2      \* foreign public pairs G*1 .. G*MaxPair handed to a private call

(* Program constants (scaled as described above) *)

FieldP == 43      \* the field prime of the curve
CurveB == 7       \* y^2 = x^3 + CurveB (enters through the generator's coordinates)
Gx == 2           \* the generator
Gy == 12
ORDER == 31       \* ORDER = ecdsa.generator_secp256k1.order()
KeyLen == 1       \* bytes of to_bytes_32 / from_bytes_32 / I64[:32] / I64[32:]
IndexLen == 3     \* bytes of struct.pack(">L", i) and struct.pack(">l", i)
ByteBase == 256
HashMul == 253    \* multiplier of the stand-in hash
HashMod == 65521  \* modulus of the stand-in hash, below ByteBase^(2*KeyLen)

None == <<"None">>
INFINITY == <<"infinity">>
G == <<Gx, Gy>>

----------------------------------------------------------------------------
(* Integer and byte codecs *)

RECURSIVE Pow(_, _)
Pow(b, e) == IF e = 0 THEN 1 ELSE b * Pow(b, e - 1)

\* n.to_bytes(len, "big"): the big-endian base-256 digits of n
RECURSIVE ToBytes(_, _)
ToBytes(n, len) ==
    IF len = 0 THEN << >>
    ELSE Append(ToBytes(n \div ByteBase, len - 1), n % ByteBase)

\* int.from_bytes(bs, "big")
RECURSIVE FromBytes(_)
FromBytes(bs) ==
    IF bs = << >> THEN 0
    ELSE FromBytes(SubSeq(bs, 1, Len(bs) - 1)) * ByteBase + bs[Len(bs)]

to_bytes_32(v) == ToBytes(v, KeyLen)
from_bytes_32(bs) == FromBytes(bs)

StructError == <<"struct.error">>

\* struct.pack(">L", i): unsigned, raises struct.error outside
\* [0, 2^(8*IndexLen) - 1]
struct_pack_uL(i) ==
    IF i >= 0 /\ i < Pow(ByteBase, IndexLen)
    THEN ToBytes(i, IndexLen) ELSE StructError

\* mutant of struct_pack_sl: the index packed with ">L", as in the private function
struct_pack_sl_Unsigned(i) ==
    IF i >= 0 /\ i < Pow(ByteBase, IndexLen)
    THEN ToBytes(i, IndexLen) ELSE StructError

\* struct.pack(">l", i): signed two's complement, raises struct.error
\* outside [-2^(8*IndexLen-1), 2^(8*IndexLen-1) - 1]
struct_pack_sl(i) ==
    IF i >= -(Pow(ByteBase, IndexLen) \div 2) /\ i < Pow(ByteBase, IndexLen) \div 2
    THEN ToBytes(i % Pow(ByteBase, IndexLen), IndexLen) ELSE StructError

----------------------------------------------------------------------------
(* The curve primitive *)

Inv(a) == CHOOSE z \in 1 .. FieldP - 1 : (a * z) % FieldP = 1

\* Point.__add__
PointAdd(P1, P2) ==
    IF P1 = INFINITY THEN P2
    ELSE IF P2 = INFINITY THEN P1
    ELSE IF P1[1] = P2[1] /\ (P1[2] + P2[2]) % FieldP = 0 THEN INFINITY
    ELSE LET l == IF P1 = P2
                  THEN (3 * P1[1] * P1[1] * Inv((2 * P1[2]) % FieldP)) % FieldP
                  ELSE ((P2[2] - P1[2]) * Inv((P2[1] - P1[1]) % FieldP)) % FieldP
             x3 == (l * l - P1[1] - P2[1]) % FieldP
             y3 == (l * (P1[1] - x3) - P1[2]) % FieldP
         IN  <<x3, y3>>

\* Point.__mul__ of a point of order ORDER: the scalar is reduced mod ORDER,
\* then double-and-add
RECURSIVE MulReduced(_, _)
MulReduced(e, P) ==
    IF e = 0 THEN INFINITY
    ELSE LET half == MulReduced(e \div 2, P)
             dbl == PointAdd(half, half)
         IN  IF e % 2 = 1 THEN PointAdd(dbl, P) ELSE dbl

PointMul(e, P) == MulReduced(e % ORDER, P)

\* e * generator_secp256k1, tabulated once for the scalars a call can form
GTable == [e \in 0 .. Pow(ByteBase, KeyLen) - 1 |-> PointMul(e, G)]

GeneratorMul(e) == GTable[e]

\* ecdsa.public_pair_for_secret_exponent(generator_secp256k1, secret_exponent)
public_pair_for_secret_exponent(e) == GeneratorMul(e)

\* public_pair_to_sec(public_pair, compressed=True)
public_pair_to_sec(pp) == <<2 + (pp[2] % 2)>> \o to_bytes_32(pp[1])

\* the public pairs a caller can hold: the finite points of the group
Points == {GeneratorMul(e) : e \in 1 .. ORDER - 1}

----------------------------------------------------------------------------
(* HMAC-SHA512 stand-in: a keyed fold over the key bytes, a separator and  *)
(* the message bytes; 2*KeyLen bytes of digest                             *)

RECURSIVE Fold(_, _)
Fold(h, bs) ==
    IF bs = << >> THEN h
    ELSE Fold((h * HashMul + bs[1] + 1) % HashMod, Tail(bs))

HMAC(s, key, msg) ==
    LET h1 == Fold(s + 1, key)
        h2 == Fold((h1 * HashMul + ByteBase) % HashMod, msg)
        h3 == (h2 * HashMul + h1) % HashMod
    IN  ToBytes(h3, 2 * KeyLen)

----------------------------------------------------------------------------
(* Observable events of a call *)

SUBKEY_VALIDATION_LOG_ERR_FMT == "BUY A LOTTO TICKET RIGHT NOW! ..."

Critical(text) == [ev |-> "log", level |-> "CRITICAL", exc |-> "", val |-> <<text>>]
Raise(exc, msg) == [ev |-> "raise", level |-> "", exc |-> exc, val |-> msg]
Return(v) == [ev |-> "return", level |-> "", exc |-> "", val |-> v]

Outcome(msgs, evs) == [hmac_msgs |-> msgs, events |-> evs]

----------------------------------------------------------------------------
(* bip32.py *)

\* mutant of PrivateData: the hardened message built from the public pair
PrivateData_HardenedFromPublic(secret_exponent, i_as_bytes, is_hardened, public_pair) ==
    LET pp == IF public_pair = None
              THEN public_pair_for_secret_exponent(secret_exponent)
              ELSE public_pair
    IN  public_pair_to_sec(pp) \o i_as_bytes

\* mutant of PrivateData: a supplied public_pair is ignored and recomputed
PrivateData_RecomputesPair(secret_exponent, i_as_bytes, is_hardened, public_pair) ==
    IF is_hardened
    THEN <<0>> \o to_bytes_32(secret_exponent) \o i_as_bytes
    ELSE public_pair_to_sec(public_pair_for_secret_exponent(secret_exponent))
             \o i_as_bytes

\* lines 95-101: the HMAC message of private derivation
PrivateData(secret_exponent, i_as_bytes, is_hardened, public_pair) ==
    IF is_hardened
    THEN <<0>> \o to_bytes_32(secret_exponent) \o i_as_bytes
    ELSE LET pp == IF public_pair = None
                   THEN public_pair_for_secret_exponent(secret_exponent)
                   ELSE public_pair
         IN  public_pair_to_sec(pp) \o i_as_bytes

\* mutant of PrivateFinish: the test new_secret_exponent == 0 is missing
PrivateFinish_NoZeroCheck(secret_exponent, i, data, I64) ==
    LET I_left_as_exponent == from_bytes_32(SubSeq(I64, 1, KeyLen))
        new_secret_exponent == (I_left_as_exponent + secret_exponent) % ORDER
        new_chain_code == SubSeq(I64, KeyLen + 1, 2 * KeyLen)
    IN  IF I_left_as_exponent >= ORDER
        THEN Outcome(<<data>>,
                     <<Critical(SUBKEY_VALIDATION_LOG_ERR_FMT),
                       Raise("ValueError", <<"bad derviation: I_L >= ", ORDER>>)>>)
        ELSE Outcome(<<data>>, <<Return(<<new_secret_exponent, new_chain_code>>)>>)

\* mutant of PrivateFinish: the error message of the zero test formats the
\* parent exponent instead of the index
PrivateFinish_LeaksExponent(secret_exponent, i, data, I64) ==
    LET I_left_as_exponent == from_bytes_32(SubSeq(I64, 1, KeyLen))
        new_secret_exponent == (I_left_as_exponent + secret_exponent) % ORDER
        new_chain_code == SubSeq(I64, KeyLen + 1, 2 * KeyLen)
    IN  IF I_left_as_exponent >= ORDER
        THEN Outcome(<<data>>,
                     <<Critical(SUBKEY_VALIDATION_LOG_ERR_FMT),
                       Raise("ValueError", <<"bad derviation: I_L >= ", ORDER>>)>>)
        ELSE IF new_secret_exponent = 0
        THEN Outcome(<<data>>,
                     <<Critical(SUBKEY_VALIDATION_LOG_ERR_FMT),
                       Raise("ValueError",
                             <<"bad derviation: k_", secret_exponent, " == 0">>)>>)
        ELSE Outcome(<<data>>, <<Return(<<new_secret_exponent, new_chain_code>>)>>)

\* mutant of PrivateFinish: the sum is not reduced modulo ORDER
PrivateFinish_NoReduce(secret_exponent, i, data, I64) ==
    LET I_left_as_exponent == from_bytes_32(SubSeq(I64, 1, KeyLen))
        new_secret_exponent == I_left_as_exponent + secret_exponent
        new_chain_code == SubSeq(I64, KeyLen + 1, 2 * KeyLen)
    IN  IF I_left_as_exponent >= ORDER
        THEN Outcome(<<data>>,
                     <<Critical(SUBKEY_VALIDATION_LOG_ERR_FMT),
                       Raise("ValueError", <<"bad derviation: I_L >= ", ORDER>>)>>)
        ELSE IF new_secret_exponent = 0
        THEN Outcome(<<data>>,
                     <<Critical(SUBKEY_VALIDATION_LOG_ERR_FMT),
                       Raise("ValueError", <<"bad derviation: k_", i, " == 0">>)>>)
        ELSE Outcome(<<data>>, <<Return(<<new_secret_exponent, new_chain_code>>)>>)

\* lines 103-113: from the digest to the result
PrivateFinish(secret_exponent, i, data, I64) ==
    LET I_left_as_exponent == from_bytes_32(SubSeq(I64, 1, KeyLen))
        new_secret_exponent == (I_left_as_exponent + secret_exponent) % ORDER
        new_chain_code == SubSeq(I64, KeyLen + 1, 2 * KeyLen)
    IN  IF I_left_as_exponent >= ORDER
        THEN Outcome(<<data>>,
                     <<Critical(SUBKEY_VALIDATION_LOG_ERR_FMT),
                       Raise("ValueError", <<"bad derviation: I_L >= ", ORDER>>)>>)
        ELSE IF new_secret_exponent = 0
        THEN Outcome(<<data>>,
                     <<Critical(SUBKEY_VALIDATION_LOG_ERR_FMT),
                       Raise("ValueError", <<"bad derviation: k_", i, " == 0">>)>>)
        ELSE Outcome(<<data>>, <<Return(<<new_secret_exponent, new_chain_code>>)>>)

subkey_secret_exponent_chain_code_pair(s, secret_exponent, chain_code_bytes, i, is_hardened, public_pair) ==
    LET i_as_bytes == struct_pack_uL(i)
        data == PrivateData(secret_exponent, i_as_bytes, is_hardened, public_pair)
    IN  IF i_as_bytes = StructError
        THEN Outcome(<< >>, <<Raise("struct.error", <<"argument out of range">>)>>)
        ELSE PrivateFinish(secret_exponent, i, data, HMAC(s, chain_code_bytes, data))

\* mutant of PublicFinish: the parent point is not added to I_L * G
PublicFinish_DropsParent(public_pair, i, data, I64) ==
    LET I_left_as_exponent == from_bytes_32(SubSeq(I64, 1, KeyLen))
        the_point == GeneratorMul(I_left_as_exponent)
        new_chain_code == SubSeq(I64, KeyLen + 1, 2 * KeyLen)
    IN  IF the_point = INFINITY
        THEN Outcome(<<data>>,
                     <<Critical(SUBKEY_VALIDATION_LOG_ERR_FMT),
                       Raise("ValueError",
                             <<"bad derviation: K_", i, " == ", the_point>>)>>)
        ELSE IF I_left_as_exponent >= ORDER
        THEN Outcome(<<data>>,
                     <<Critical(SUBKEY_VALIDATION_LOG_ERR_FMT),
                       Raise("ValueError", <<"bad derviation: I_L >= ", ORDER>>)>>)
        ELSE Outcome(<<data>>, <<Return(<<the_point, new_chain_code>>)>>)

\* mutant of PublicFinish: the test I_L >= ORDER is missing
PublicFinish_NoOrderCheck(public_pair, i, data, I64) ==
    LET I_left_as_exponent == from_bytes_32(SubSeq(I64, 1, KeyLen))
        the_point == PointAdd(GeneratorMul(I_left_as_exponent), public_pair)
        new_chain_code == SubSeq(I64, KeyLen + 1, 2 * KeyLen)
    IN  IF the_point = INFINITY
        THEN Outcome(<<data>>,
                     <<Critical(SUBKEY_VALIDATION_LOG_ERR_FMT),
                       Raise("ValueError",
                             <<"bad derviation: K_", i, " == ", the_point>>)>>)
        ELSE Outcome(<<data>>, <<Return(<<the_point, new_chain_code>>)>>)

\* mutant of PublicFinish: the point at infinity raises without a log record
PublicFinish_SilentInfinity(public_pair, i, data, I64) ==
    LET I_left_as_exponent == from_bytes_32(SubSeq(I64, 1, KeyLen))
        the_point == PointAdd(GeneratorMul(I_left_as_exponent), public_pair)
        new_chain_code == SubSeq(I64, KeyLen + 1, 2 * KeyLen)
    IN  IF the_point = INFINITY
        THEN Outcome(<<data>>,
                     <<Raise("ValueError",
                             <<"bad derviation: K_", i, " == ", the_point>>)>>)
        ELSE IF I_left_as_exponent >= ORDER
        THEN Outcome(<<data>>,
                     <<Critical(SUBKEY_VALIDATION_LOG_ERR_FMT),
                       Raise("ValueError", <<"bad derviation: I_L >= ", ORDER>>)>>)
        ELSE Outcome(<<data>>, <<Return(<<the_point, new_chain_code>>)>>)

\* lines 133-150: from the digest to the result
PublicFinish(public_pair, i, data, I64) ==
    LET I_left_as_exponent == from_bytes_32(SubSeq(I64, 1, KeyLen))
        the_point == PointAdd(GeneratorMul(I_left_as_exponent), public_pair)
        new_chain_code == SubSeq(I64, KeyLen + 1, 2 * KeyLen)
    IN  IF the_point = INFINITY
        THEN Outcome(<<data>>,
                     <<Critical(SUBKEY_VALIDATION_LOG_ERR_FMT),
                       Raise("ValueError",
                             <<"bad derviation: K_", i, " == ", the_point>>)>>)
        ELSE IF I_left_as_exponent >= ORDER
        THEN Outcome(<<data>>,
                     <<Critical(SUBKEY_VALIDATION_LOG_ERR_FMT),
                       Raise("ValueError", <<"bad derviation: I_L >= ", ORDER>>)>>)
        ELSE Outcome(<<data>>, <<Return(<<the_point, new_chain_code>>)>>)

subkey_public_pair_chain_code_pair(s, public_pair, chain_code_bytes, i) ==
    LET i_as_bytes == struct_pack_sl(i)
        data == public_pair_to_sec(public_pair) \o i_as_bytes
    IN  IF i_as_bytes = StructError
        THEN Outcome(<< >>, <<Raise("struct.error", <<"argument out of range">>)>>)
        ELSE PublicFinish(public_pair, i, data, HMAC(s, chain_code_bytes, data))

----------------------------------------------------------------------------
(* Inputs *)

Salts == 0 .. MaxSalt
SecretExponents == 1 .. ORDER - 1
ChainCodes == {to_bytes_32(c) : c \in 0 .. MaxCC}
Pivots == {-(Pow(ByteBase, IndexLen) \div 2), 0,
           Pow(ByteBase, IndexLen) \div 2, Pow(ByteBase, IndexLen)}
Indices == {b + d : b \in Pivots, d \in -MaxOff .. MaxOff}

NoCall == [fn |-> "none"]
NoOutcome == Outcome(<< >>, << >>)

\* public_pair arguments of a private call: omitted, the matching pair, and
\* pairs that come from fixed other exponents
PairChoices(se) ==
    {None, GeneratorMul(se)} \cup {GeneratorMul(e) : e \in 1 .. MaxPair}

PrivateCalls ==
    UNION { [fn : {"private"}, se : {se}, cc : ChainCodes, i : Indices,
             is_hardened : BOOLEAN, public_pair : PairChoices(se)] :
            se \in SecretExponents }

PublicCalls ==
    [fn : {"public"}, public_pair : Points, cc : ChainCodes, i : Indices]

----------------------------------------------------------------------------
(* Single calls: Init draws the arguments, the action applies the function *)

Init ==
    /\ salt \in Salts
    /\ call \in PrivateCalls \cup PublicCalls
    /\ outcome = NoOutcome
    /\ priv = None
    /\ pub = None
    /\ depth = 0

CallPrivate ==
    /\ call.fn = "private"
    /\ outcome = NoOutcome
    /\ outcome' = subkey_secret_exponent_chain_code_pair(
                      salt, call.se, call.cc, call.i, call.is_hardened,
                      call.public_pair)
    /\ UNCHANGED <<salt, call, priv, pub, depth>>

CallPublic ==
    /\ call.fn = "public"
    /\ outcome = NoOutcome
    /\ outcome' = subkey_public_pair_chain_code_pair(
                      salt, call.public_pair, call.cc, call.i)
    /\ UNCHANGED <<salt, call, priv, pub, depth>>

Next == CallPrivate \/ CallPublic

Spec == Init /\ [][Next]_vars

----------------------------------------------------------------------------
(* Derivation paths: a private node and, while every step so far was       *)
(* derivable from public material, the public node derived beside it       *)

Returned(o) == o.events # << >> /\ o.events[Len(o.events)].ev = "return"
Value(o) == o.events[Len(o.events)].val

TreeInit ==
    /\ salt \in Salts
    /\ call = NoCall
    /\ outcome = NoOutcome
    /\ \E se \in SecretExponents, cc \in ChainCodes :
          /\ priv = <<se, cc>>
          /\ pub = <<public_pair_for_secret_exponent(se), cc>>
    /\ depth = 0

\* the public side of a step: the child of pub, or None when there is no
\* public parent or the public derivation raises
PublicStep(i) ==
    IF pub = None THEN None
    ELSE LET o == subkey_public_pair_chain_code_pair(salt, pub[1], pub[2], i)
         IN  IF Returned(o) THEN Value(o)
             ELSE None

ChildNormal ==
    \E i \in Indices :
        LET o == subkey_secret_exponent_chain_code_pair(
                     salt, priv[1], priv[2], i, FALSE, None)
        IN  /\ depth < MaxDepth
            /\ Returned(o)
            /\ priv' = Value(o)
            /\ pub' = PublicStep(i)
            /\ depth' = depth + 1
            /\ UNCHANGED <<salt, call, outcome>>

ChildHardened ==
    \E i \in Indices :
        LET o == subkey_secret_exponent_chain_code_pair(
                     salt, priv[1], priv[2], i, TRUE, None)
        IN  /\ depth < MaxDepth
            /\ Returned(o)
            /\ priv' = Value(o)
            /\ pub' = None
            /\ depth' = depth + 1
            /\ UNCHANGED <<salt, call, outcome>>

TreeNext == ChildNormal \/ ChildHardened

TreeSpec == TreeInit /\ [][TreeNext]_vars

----------------------------------------------------------------------------
(* Vocabulary of the properties *)

IndexSpan == Pow(ByteBase, IndexLen)      \* 2^32 in the program
HardenedBit == IndexSpan \div 2           \* 2^31 in the program

Done == outcome # NoOutcome
Last(o) == o.events[Len(o.events)]
RaisedExc(o, exc) ==
    /\ o.events # << >>
    /\ Last(o).ev = "raise"
    /\ Last(o).exc = exc
    /\ \A k \in 1 .. Len(o.events) : o.events[k].ev # "return"
Failed(o) ==
    /\ o.events # << >>
    /\ Last(o).ev = "raise"
    /\ \A k \in 1 .. Len(o.events) : o.events[k].ev # "return"
LogCount(o) == Cardinality({k \in 1 .. Len(o.events) : o.events[k].ev = "log"})

PrivateDone == Done /\ call.fn = "private"
PublicDone == Done /\ call.fn = "public"

\* the digest of the message the call handed to HMAC, split as the reference does
Digest == HMAC(salt, call.cc, outcome.hmac_msgs[1])
I_L == FromBytes(SubSeq(Digest, 1, KeyLen))
I_R == SubSeq(Digest, KeyLen + 1, 2 * KeyLen)

\* the public pair a private call works with
EffectivePair ==
    IF call.public_pair = None THEN GeneratorMul(call.se) ELSE call.public_pair

\* every message a public derivation hands to HMAC
PublicMessages ==
    UNION { {o.hmac_msgs[k] : k \in 1 .. Len(o.hmac_msgs)} :
            o \in {subkey_public_pair_chain_code_pair(s, pt, cc, j) :
                      s \in Salts, pt \in Points, cc \in ChainCodes, j \in Indices} }

----------------------------------------------------------------------------
(* C1: for a non-hardened index in [0, 2^31-1], whenever the private       *)
(* derivation of (secret_exponent, chain_code, i) returns (k', c'), the    *)
(* public derivation of (G*secret_exponent, chain_code, i) returns exactly *)
(* (G*k', c'); and whenever the private derivation fails, the public one   *)
(* fails.                                                                  *)
C1_PublicChildIsProjectionOfPrivateChild ==
    (/\ PrivateDone
     /\ ~call.is_hardened
     /\ call.public_pair \in {None, GeneratorMul(call.se)}
     /\ call.i \in 0 .. HardenedBit - 1)
    => LET po == subkey_public_pair_chain_code_pair(
                     salt, GeneratorMul(call.se), call.cc, call.i)
       IN  IF Returned(outcome)
           THEN /\ Returned(po)
                /\ Value(po) = <<GeneratorMul(Value(outcome)[1]), Value(outcome)[2]>>
           ELSE Failed(po)

C1_Witness ==
    /\ PrivateDone
    /\ ~call.is_hardened
    /\ call.public_pair = None
    /\ call.i \in 1 .. HardenedBit - 1
    /\ Returned(outcome)
    /\ Returned(subkey_public_pair_chain_code_pair(
                    salt, GeneratorMul(call.se), call.cc, call.i))

(* C2: with I = HMAC(chain_code, data) and I_L = I[0:32], the private      *)
(* derivation returns ((I_L + secret_exponent) mod n, I[32:64]) exactly    *)
(* when I_L < n and (I_L + secret_exponent) mod n # 0, and otherwise       *)
(* raises ValueError and returns no pair.                                  *)
C2_PrivateMatchesReference ==
    (PrivateDone /\ call.i \in 0 .. IndexSpan - 1)
    => /\ Len(outcome.hmac_msgs) = 1
       /\ IF I_L < ORDER /\ (I_L + call.se) % ORDER # 0
          THEN /\ Returned(outcome)
               /\ Value(outcome) = <<(I_L + call.se) % ORDER, I_R>>
          ELSE RaisedExc(outcome, "ValueError")

C2_Witness ==
    /\ PrivateDone
    /\ call.i \in 0 .. IndexSpan - 1
    /\ I_L < ORDER
    /\ (I_L + call.se) % ORDER = 0
    /\ RaisedExc(outcome, "ValueError")

(* C3: with I = HMAC(chain_code, compressed(public_point) || index bytes)  *)
(* and I_L = I[0:32], the public derivation returns (I_L*G + public_point, *)
(* I[32:64]) exactly when I_L < n and that point is not the point at       *)
(* infinity, and raises ValueError in every other case, also when          *)
(* I_L >= n and the point is finite.                                       *)
C3_PublicMatchesReference ==
    (PublicDone /\ call.i \in 0 .. HardenedBit - 1)
    => /\ outcome.hmac_msgs =
              <<public_pair_to_sec(call.public_pair) \o ToBytes(call.i, IndexLen)>>
       /\ IF I_L < ORDER /\ PointAdd(PointMul(I_L, G), call.public_pair) # INFINITY
          THEN /\ Returned(outcome)
               /\ Value(outcome) =
                      <<PointAdd(PointMul(I_L, G), call.public_pair), I_R>>
          ELSE RaisedExc(outcome, "ValueError")

C3_Witness ==
    /\ PublicDone
    /\ call.i \in 0 .. HardenedBit - 1
    /\ I_L >= ORDER
    /\ PointAdd(PointMul(I_L, G), call.public_pair) # INFINITY
    /\ RaisedExc(outcome, "ValueError")

(* C4: the HMAC message of private derivation is chosen by the hardened    *)
(* flag alone: hardened, it is 0x00 || secret_exponent || index bytes and  *)
(* no public point enters it; not hardened, it is compressed(public point) *)
(* || index bytes.  Hence no public derivation, of any point and index,    *)
(* hands HMAC the message of a hardened derivation.                        *)
C4_MessageSelectedByHardenedFlag ==
    (PrivateDone /\ call.i \in 0 .. IndexSpan - 1)
    => /\ outcome.hmac_msgs =
            << IF call.is_hardened
               THEN <<0>> \o ToBytes(call.se, KeyLen) \o ToBytes(call.i, IndexLen)
               ELSE public_pair_to_sec(EffectivePair) \o ToBytes(call.i, IndexLen) >>
       /\ call.is_hardened => outcome.hmac_msgs[1] \notin PublicMessages

C4_Witness ==
    /\ PrivateDone
    /\ call.is_hardened
    /\ call.public_pair # None
    /\ call.public_pair # GeneratorMul(call.se)
    /\ Returned(outcome)

(* C5: for every index with the hardened bit set (2^31 <= i <= 2^32-1) the *)
(* public derivation fails with an error and returns no pair, whatever the *)
(* public point and the chain code.                                        *)
C5_PublicRejectsHardenedIndex ==
    (PublicDone /\ call.i \in HardenedBit .. IndexSpan - 1) => Failed(outcome)

C5_Witness ==
    /\ PublicDone
    /\ call.i = HardenedBit
    /\ Failed(outcome)

(* C6: both derivation functions reject every index outside [0, 2^32-1],   *)
(* in particular every negative index, and for every index both accept the *)
(* index bytes handed to HMAC are its unsigned big-endian encoding.         *)
C6_IndexIsUnsigned32InBoth ==
    Done =>
       /\ call.i \notin 0 .. IndexSpan - 1 => Failed(outcome)
       /\ (call.i \in 0 .. IndexSpan - 1 /\ outcome.hmac_msgs # << >>) =>
             SubSeq(outcome.hmac_msgs[1],
                    Len(outcome.hmac_msgs[1]) - IndexLen + 1,
                    Len(outcome.hmac_msgs[1])) = ToBytes(call.i, IndexLen)

(* C7: no secret reaches a log record or an error message: the log text is *)
(* the fixed format text, and the message of a raised error is built from  *)
(* the constant n, the index and the point at infinity alone; two private  *)
(* calls (public_pair omitted) that differ only in secret exponent and     *)
(* chain code and fail with the same failure kind emit the same log record *)
(* and raise the same message.                                             *)
SecretFreeMessages(i) ==
    { <<"bad derviation: I_L >= ", ORDER>>,
      <<"bad derviation: k_", i, " == 0">>,
      <<"bad derviation: K_", i, " == ", INFINITY>>,
      <<"argument out of range">> }

\* the failure kind of a call: which template its error message follows
FailureKind(o) == Last(o).val[1]

C7_NoSecretInLogOrError ==
    Done =>
        /\ \A k \in 1 .. Len(outcome.events) :
              /\ outcome.events[k].ev = "log" =>
                     outcome.events[k].val = <<SUBKEY_VALIDATION_LOG_ERR_FMT>>
              /\ outcome.events[k].ev = "raise" =>
                     outcome.events[k].val \in SecretFreeMessages(call.i)
        /\ (call.fn = "private" /\ call.public_pair = None /\ Failed(outcome)) =>
              \A se2 \in SecretExponents, cc2 \in ChainCodes :
                  LET o2 == subkey_secret_exponent_chain_code_pair(
                                salt, se2, cc2, call.i, call.is_hardened,
                                call.public_pair)
                  IN  (Failed(o2) /\ FailureKind(o2) = FailureKind(outcome))
                          => o2.events = outcome.events

C7_Witness ==
    /\ PrivateDone
    /\ RaisedExc(outcome, "ValueError")
    /\ Last(outcome).val = <<"bad derviation: k_", call.i, " == 0">>
    /\ LogCount(outcome) = 1

(* C8: a detected derivation failure (I_L >= n, child exponent 0, child    *)
(* point at infinity) first emits exactly one log record of critical       *)
(* severity and then raises to the caller; nothing is returned after it    *)
(* and HMAC is not asked again for another index.                          *)
FailureDetected ==
    \/ I_L >= ORDER
    \/ call.fn = "private" /\ (I_L + call.se) % ORDER = 0
    \/ call.fn = "public" /\ PointAdd(PointMul(I_L, G), call.public_pair) = INFINITY

C8_FailureLogsOnceThenRaises ==
    (Done /\ outcome.hmac_msgs # << >>)
    => /\ Len(outcome.hmac_msgs) = 1
       /\ FailureDetected =>
            /\ Len(outcome.events) = 2
            /\ outcome.events[1].ev = "log"
            /\ outcome.events[1].level = "CRITICAL"
            /\ outcome.events[2].ev = "raise"
            /\ outcome.events[2].exc = "ValueError"

C8_Witness ==
    /\ PublicDone
    /\ outcome.hmac_msgs # << >>
    /\ I_L < ORDER
    /\ PointAdd(PointMul(I_L, G), call.public_pair) = INFINITY
    /\ Len(outcome.events) = 2
    /\ outcome.events[1].level = "CRITICAL"
    /\ outcome.events[2].ev = "raise"

(* C9: along every path of successful derivations from a root with        *)
(* secret_exponent in [1, n-1] and public_point = G*secret_exponent, the   *)
(* private exponent stays in [1, n-1], and a node reached both privately   *)
(* and publicly has public_point = G*secret_exponent and the same chain    *)
(* code on both sides.                                                     *)
C9_KeyPairInvariant ==
    /\ priv[1] \in 1 .. ORDER - 1
    /\ pub # None => /\ pub[1] = PointMul(priv[1], G)
                     /\ pub[2] = priv[2]

C9_Witness ==
    /\ depth >= 2
    /\ pub # None
    /\ pub[1] = PointMul(priv[1], G)

(* C10: public_pair is a precomputation shortcut: not hardened, the result *)
(* with public_pair = G*secret_exponent equals the result with public_pair *)
(* omitted; hardened, the result is the same for every public_pair; and a  *)
(* supplied public_pair is used as given, without a check against          *)
(* secret_exponent.                                                        *)
C10_PublicPairIsShortcut ==
    PrivateDone =>
       /\ (~call.is_hardened /\ call.public_pair = GeneratorMul(call.se)) =>
             outcome = subkey_secret_exponent_chain_code_pair(
                           salt, call.se, call.cc, call.i, FALSE, None)
       /\ call.is_hardened =>
             \A q \in Points \cup {None} :
                 outcome = subkey_secret_exponent_chain_code_pair(
                               salt, call.se, call.cc, call.i, TRUE, q)
       /\ (~call.is_hardened /\ call.public_pair # None
             /\ call.i \in 0 .. IndexSpan - 1) =>
             /\ outcome.hmac_msgs =
                   <<public_pair_to_sec(call.public_pair) \o ToBytes(call.i, IndexLen)>>
             /\ (I_L < ORDER /\ (I_L + call.se) % ORDER # 0) => Returned(outcome)

C10_Witness ==
    /\ PrivateDone
    /\ ~call.is_hardened
    /\ call.public_pair # None
    /\ call.public_pair # GeneratorMul(call.se)
    /\ Returned(outcome)
    /\ outcome # subkey_secret_exponent_chain_code_pair(
                     salt, call.se, call.cc, call.i, FALSE, None)

=============================================================================
